---- MODULE Spec2Model ----
(***************************************************************************)
(* A model of kursinis.py, the birthday reminder: the record and account   *)
(* model (Birthday, User), the file-backed singleton store (_Storage), the *)
(* notifier factory and the four CLI command callbacks.                    *)
(*                                                                         *)
(* Python values are modelled as follows.                                  *)
(*   Birthday        a record [name, day, month]                           *)
(*   User            a record [username, birthdays], birthdays a sequence  *)
(*   dict _users     a sequence of User in key insertion order             *)
(*   the file        [exists, parses, json]; json is what json.load        *)
(*                   returns: a sequence of [key, value] pairs, value a    *)
(*                   sequence of JSON objects (records)                    *)
(*   an exception    a record [type, msg]                                  *)
(*   an optional str a sequence of length 0 (None) or 1                    *)
(***************************************************************************)
EXTENDS Integers, Sequences, FiniteSets, TLC

(***************************************************************************)
(* Bounds of the model.                                                    *)
(***************************************************************************)
\* Number of person names the account-level specification draws from.
NumNames == 3
\* Cap on the records held in memory by the store-level specification.
MaxStoreRecords == 3

NameList == <<"Bob", "bob", "Ann", "Eve", "Zed", "Joe">>
Names == {NameList[i] : i \in 1..NumNames}
\* "Bob" and "bob" differ only in case.
StoreNames == {"Bob", "bob"}
Usernames == {"alice", "bob"}
\* <<day, month>> pairs: ordering by (month, day) and by (day, month) differ.
Dates == {<<6, 2>>, <<1, 3>>}
StoreDates == {<<6, 2>>}
Years == {2025, 2026}
\* Values date.today() may return.
Todays == {[year |-> y, month |-> dm[2], day |-> dm[1]] :
             y \in Years, dm \in {<<6, 2>>, <<1, 3>>, <<1, 2>>}}
StoreTodays == {[year |-> 2025, month |-> 2, day |-> 6]}
None == <<>>
Some(s) == <<s>>
Addresses == {None, Some(""), Some("a@example.com")}
StoreAddresses == {None, Some("a@example.com")}
Channels == {"console", "email"}
Kinds == {"console", "email", "sms"}

VARIABLES
  file,      \* content of the backing file _Storage._path
  instance,  \* _Storage._instance is not None
  users,     \* _Storage._instance._users
  op,        \* the call that ran last
  arg,       \* its arguments (and the date.today() it read)
  err,       \* the exception it raised, NoErr when it returned
  out,       \* the lines it printed
  sent,      \* the Notifier.send calls it made
  ret        \* the notifier NotifierFactory.create returned

vars == <<file, instance, users, op, arg, err, out, sent, ret>>

(***************************************************************************)
(* Exceptions.                                                             *)
(***************************************************************************)
NoErr == [type |-> "none", msg |-> ""]
DupErr == [type |-> "ValueError", msg |-> "Birthday already exists for that name."]
NotFoundErr == [type |-> "ValueError", msg |-> "No birthday found for that name."]
ExitNotFound == [type |-> "SystemExit", msg |-> "No birthday found for that name."]
ExitAddress == [type |-> "SystemExit", msg |-> "--address is required when --channel email"]
MissingAddressErr == [type |-> "ValueError", msg |-> "Missing email address for email notifier"]
UnknownKindErr(kind) == [type |-> "ValueError", msg |-> "Unknown notifier kind: " \o kind]
JsonErr == [type |-> "JSONDecodeError", msg |-> "json.load"]
TypeErr == [type |-> "TypeError", msg |-> "Birthday.__init__()"]
OSErr == [type |-> "OSError", msg |-> "open/write"]

(***************************************************************************)
(* Record model: Birthday and User.                                        *)
(***************************************************************************)
Birthday(name, day, month) == [name |-> name, day |-> day, month |-> month]
BirthdayFields == {"name", "day", "month"}
User(username) == [username |-> username, birthdays |-> <<>>]
Truthy(s) == s # None /\ s[1] # ""

occurs_today_day_only(b, today) == b.day = today.day
occurs_today(b, today) == b.day = today.day /\ b.month = today.month

add_birthday_nocheck(bs, b) == [birthdays |-> Append(bs, b), err |-> NoErr]
add_birthday_upsert(bs, b) ==
  IF \E i \in 1..Len(bs) : bs[i].name = b.name
  THEN [birthdays |-> [i \in 1..Len(bs) |-> IF bs[i].name = b.name THEN b ELSE bs[i]],
        err |-> NoErr]
  ELSE [birthdays |-> Append(bs, b), err |-> NoErr]
\* User.add_birthday on the list bs: the list afterwards and the exception.
add_birthday(bs, b) ==
  IF \E i \in 1..Len(bs) : bs[i].name = b.name
  THEN [birthdays |-> bs, err |-> DupErr]
  ELSE [birthdays |-> Append(bs, b), err |-> NoErr]

remove_birthday_silent(bs, name) ==
  [birthdays |-> SelectSeq(bs, LAMBDA b : b.name # name), err |-> NoErr]
\* User.remove_birthday: the list is reassigned before the length test.
remove_birthday(bs, name) ==
  LET kept == SelectSeq(bs, LAMBDA b : b.name # name)
  IN  [birthdays |-> kept,
       err |-> IF Len(kept) = Len(bs) THEN NotFoundErr ELSE NoErr]

todays_birthdays(bs, today) == SelectSeq(bs, LAMBDA b : occurs_today(b, today))

(***************************************************************************)
(* The dict _users.                                                        *)
(***************************************************************************)
HasUser(us, u) == \E i \in 1..Len(us) : us[i].username = u
IndexOf(us, u) == CHOOSE i \in 1..Len(us) : us[i].username = u
Account(us, u) == us[IndexOf(us, u)].birthdays
\* self._users[username] = user
SetUser(us, user) ==
  IF HasUser(us, user.username)
  THEN [us EXCEPT ![IndexOf(us, user.username)] = user]
  ELSE Append(us, user)
\* _Storage.get_user: the dict afterwards.
get_user(us, u) == IF HasUser(us, u) THEN us ELSE Append(us, User(u))
RECURSIVE CountRecords(_)
CountRecords(us) ==
  IF us = <<>> THEN 0 ELSE Len(Head(us).birthdays) + CountRecords(Tail(us))

(***************************************************************************)
(* Persistence: _load and _save.                                           *)
(***************************************************************************)
NoFile == [exists |-> FALSE, parses |-> FALSE, json |-> <<>>]
\* A file json.load rejects (not JSON, or a truncated write).
GarbageFile == [exists |-> TRUE, parses |-> FALSE, json |-> <<>>]
JsonFile(items) == [exists |-> TRUE, parses |-> TRUE, json |-> items]

RECURSIVE LoadRecs(_, _)
\* for rec in recs: user.add_birthday(Birthday(**rec))
LoadRecs(recs, bs) ==
  IF recs = <<>> THEN [birthdays |-> bs, err |-> NoErr]
  ELSE LET rec == Head(recs) IN
       IF DOMAIN rec # BirthdayFields THEN [birthdays |-> bs, err |-> TypeErr]
       ELSE LET r == add_birthday(bs, Birthday(rec.name, rec.day, rec.month)) IN
            IF r.err # NoErr THEN r ELSE LoadRecs(Tail(recs), r.birthdays)

RECURSIVE LoadItems(_, _)
\* for username, recs in raw.items(): the account is registered only after
\* all of its records were added.
LoadItems(items, us) ==
  IF items = <<>> THEN [users |-> us, err |-> NoErr]
  ELSE LET r == LoadRecs(Head(items).value, <<>>) IN
       IF r.err # NoErr THEN [users |-> us, err |-> r.err]
       ELSE LoadItems(Tail(items),
                      SetUser(us, [username |-> Head(items).key,
                                   birthdays |-> r.birthdays]))

\* _Storage._load into the dict us: the dict afterwards and the exception.
_load(f, us) ==
  IF ~f.exists THEN [users |-> us, err |-> NoErr]
  ELSE IF ~f.parses THEN [users |-> us, err |-> JsonErr]
  ELSE LoadItems(f.json, us)

ToJson(b) == [name |-> b.name, day |-> b.day, month |-> b.month]
_save_skip_empty(us) ==
  LET full == SelectSeq(us, LAMBDA u : u.birthdays # <<>>)
  IN  JsonFile([i \in 1..Len(full) |->
        [key |-> full[i].username,
         value |-> [j \in 1..Len(full[i].birthdays) |-> ToJson(full[i].birthdays[j])]]])
\* _Storage._save: the file a completed json.dump leaves.
_save(us) ==
  JsonFile([i \in 1..Len(us) |->
    [key |-> us[i].username,
     value |-> [j \in 1..Len(us[i].birthdays) |-> ToJson(us[i].birthdays[j])]]])

\* Outcomes of open(path, "w") followed by json.dump.
IoOutcomes == {"ok", "open_fails", "write_fails"}
WrittenMerged(f, us, io) ==
  CASE io = "ok" ->
         JsonFile(SelectSeq(f.json, LAMBDA e : ~HasUser(us, e.key)) \o _save(us).json)
    [] io = "open_fails" -> f
    [] OTHER -> GarbageFile
\* The file after _save under an I/O outcome: open("w") truncates, so a
\* failed write leaves a prefix of the document.
Written(f, us, io) ==
  CASE io = "ok" -> _save(us)
    [] io = "open_fails" -> f
    [] OTHER -> GarbageFile
IoErr(io) == IF io = "ok" THEN NoErr ELSE OSErr

\* _Storage.__new__: _instance is assigned before _load runs, so it stays
\* assigned when _load raises.
Storage(inst, us, f) ==
  IF inst THEN [users |-> us, err |-> NoErr]
  ELSE _load(f, <<>>)

(***************************************************************************)
(* Notifiers.                                                              *)
(***************************************************************************)
NoNotifier == [kind |-> "none", address |-> None]
ConsoleNotifier == [kind |-> "console", address |-> None]
EmailNotifier(address) == [kind |-> "email", address |-> Some(address)]

create_accepts_empty(kind, address) ==
  IF kind = "console" THEN [notifier |-> ConsoleNotifier, err |-> NoErr]
  ELSE IF kind = "email" THEN
    IF address = None THEN [notifier |-> NoNotifier, err |-> MissingAddressErr]
    ELSE [notifier |-> EmailNotifier(address[1]), err |-> NoErr]
  ELSE [notifier |-> NoNotifier, err |-> UnknownKindErr(kind)]
\* NotifierFactory.create(kind, address=...): address is kwargs.get("address").
create(kind, address) ==
  IF kind = "console" THEN [notifier |-> ConsoleNotifier, err |-> NoErr]
  ELSE IF kind = "email" THEN
    IF ~Truthy(address) THEN [notifier |-> NoNotifier, err |-> MissingAddressErr]
    ELSE [notifier |-> EmailNotifier(address[1]), err |-> NoErr]
  ELSE [notifier |-> NoNotifier, err |-> UnknownKindErr(kind)]

\* _build_email_notifier_kwargs: the kwargs' address and the exception.
_build_email_notifier_kwargs(channel, address) ==
  IF channel = "email" /\ ~Truthy(address)
  THEN [address |-> None, err |-> ExitAddress]
  ELSE [address |-> IF Truthy(address) THEN address ELSE None, err |-> NoErr]

(***************************************************************************)
(* Printed lines.                                                          *)
(***************************************************************************)
Msg(text) == [text |-> text, who |-> "", name |-> "", day |-> 0, month |-> 0]
\* f"{bd.name:20} - {bd.day:02}.{bd.month:02}."
EntryLine(b) == [text |-> "entry", who |-> "", name |-> b.name, day |-> b.day, month |-> b.month]
\* ConsoleNotifier.send / EmailNotifier.send
send(notifier, username, b, today) ==
  IF notifier.kind = "console"
  THEN [text |-> "Hey! Today is the birthday of", who |-> username,
        name |-> b.name, day |-> today.day, month |-> today.month]
  ELSE [text |-> "[Simulated email to]", who |-> notifier.address[1],
        name |-> b.name, day |-> today.day, month |-> today.month]

ListKeyLessDayFirst(a, b) == a.day < b.day \/ (a.day = b.day /\ a.month < b.month)
\* key=lambda b: (b.month, b.day), compared as tuples
ListKeyLess(a, b) == a.month < b.month \/ (a.month = b.month /\ a.day < b.day)
RECURSIVE Insert(_, _)
Insert(s, x) ==
  IF s = <<>> THEN <<x>>
  ELSE IF ListKeyLess(x, Head(s)) THEN <<x>> \o s
  ELSE <<Head(s)>> \o Insert(Tail(s), x)
RECURSIVE sorted(_)
\* sorted(...) is stable: equal keys keep their input order.
sorted(s) ==
  IF s = <<>> THEN <<>>
  ELSE Insert(sorted(SubSeq(s, 1, Len(s) - 1)), s[Len(s)])

(***************************************************************************)
(* Calls.  Every action records the call in op, arg, err, out, sent, ret.  *)
(***************************************************************************)
NoDate == [year |-> 0, month |-> 0, day |-> 0]
NoArg == [user |-> "", name |-> "", day |-> 0, month |-> 0,
          channel |-> "", address |-> None, today |-> NoDate]
Called(o, a, e, lines, sends, r) ==
  /\ op' = o
  /\ arg' = a
  /\ err' = e
  /\ out' = lines
  /\ sent' = sends
  /\ ret' = r

\* A new interpreter process, or the test fixture's _Storage._instance = None.
ProcessStart ==
  /\ instance
  /\ instance' = FALSE
  /\ users' = <<>>
  /\ file' = file
  /\ Called("reset", NoArg, NoErr, <<>>, <<>>, NoNotifier)

\* Storage()
CallStorage ==
  LET s == Storage(instance, users, file) IN
  /\ instance' = TRUE
  /\ users' = s.users
  /\ file' = file
  /\ Called(IF instance THEN "Storage" ELSE "Storage:load", NoArg, s.err,
            <<>>, <<>>, NoNotifier)

\* store.get_user(u) on the store object
CallGetUser(u) ==
  /\ instance
  /\ users' = get_user(users, u)
  /\ UNCHANGED <<instance, file>>
  /\ Called("get_user", [NoArg EXCEPT !.user = u], NoErr, <<>>, <<>>, NoNotifier)

\* user.add_birthday(b) on the User object of account u
CallAddBirthday(u, b) ==
  /\ instance
  /\ HasUser(users, u)
  /\ LET r == add_birthday(Account(users, u), b) IN
     /\ users' = SetUser(users, [username |-> u, birthdays |-> r.birthdays])
     /\ Called("add_birthday",
               [NoArg EXCEPT !.user = u, !.name = b.name, !.day = b.day, !.month = b.month],
               r.err, <<>>, <<>>, NoNotifier)
  /\ UNCHANGED <<instance, file>>

\* user.remove_birthday(name) on the User object of account u
CallRemoveBirthday(u, name) ==
  /\ instance
  /\ HasUser(users, u)
  /\ LET r == remove_birthday(Account(users, u), name) IN
     /\ users' = SetUser(users, [username |-> u, birthdays |-> r.birthdays])
     /\ Called("remove_birthday", [NoArg EXCEPT !.user = u, !.name = name],
               r.err, <<>>, <<>>, NoNotifier)
  /\ UNCHANGED <<instance, file>>

\* store.save()
CallSave(io) ==
  /\ instance
  /\ file' = Written(file, users, io)
  /\ UNCHANGED <<instance, users>>
  /\ Called("save", NoArg, IoErr(io), <<>>, <<>>, NoNotifier)

\* NotifierFactory.create(kind, address=address)
CallCreate(kind, address) ==
  LET r == create(kind, address) IN
  /\ UNCHANGED <<instance, users, file>>
  /\ Called("create", [NoArg EXCEPT !.channel = kind, !.address = address],
            r.err, <<>>, <<>>, r.notifier)

CmdAddSavesFirst(u, name, day, month, io) ==
  LET a == [NoArg EXCEPT !.user = u, !.name = name, !.day = day, !.month = month]
      s == Storage(instance, users, file)
      us1 == get_user(s.users, u)
      r == add_birthday(Account(us1, u), Birthday(name, day, month))
      us2 == SetUser(us1, [username |-> u, birthdays |-> r.birthdays])
  IN
  /\ instance' = TRUE
  /\ IF s.err # NoErr
     THEN /\ users' = s.users
          /\ file' = file
          /\ Called("cmd_add", a, s.err, <<>>, <<>>, NoNotifier)
     ELSE /\ users' = us2
          /\ file' = Written(file, us2, io)
          /\ Called("cmd_add", a, IF r.err # NoErr THEN r.err ELSE IoErr(io),
                    IF r.err = NoErr /\ io = "ok"
                    THEN <<Msg("Birthday added and saved.")>> ELSE <<>>,
                    <<>>, NoNotifier)
\* _cmd_add: the ValueError of add_birthday is not caught.
CmdAdd(u, name, day, month, io) ==
  LET a == [NoArg EXCEPT !.user = u, !.name = name, !.day = day, !.month = month]
      s == Storage(instance, users, file)
      us1 == get_user(s.users, u)
      r == add_birthday(Account(us1, u), Birthday(name, day, month))
      us2 == SetUser(us1, [username |-> u, birthdays |-> r.birthdays])
  IN
  /\ instance' = TRUE
  /\ IF s.err # NoErr
     THEN /\ users' = s.users
          /\ file' = file
          /\ Called("cmd_add", a, s.err, <<>>, <<>>, NoNotifier)
     ELSE IF r.err # NoErr
     THEN /\ users' = us1
          /\ file' = file
          /\ Called("cmd_add", a, r.err, <<>>, <<>>, NoNotifier)
     ELSE /\ users' = us2
          /\ file' = Written(file, us2, io)
          /\ Called("cmd_add", a, IoErr(io),
                    IF io = "ok" THEN <<Msg("Birthday added and saved.")>> ELSE <<>>,
                    <<>>, NoNotifier)

\* _cmd_remove: the ValueError becomes sys.exit(str(exc)).
CmdRemove(u, name, io) ==
  LET a == [NoArg EXCEPT !.user = u, !.name = name]
      s == Storage(instance, users, file)
      us1 == get_user(s.users, u)
      r == remove_birthday(Account(us1, u), name)
      us2 == SetUser(us1, [username |-> u, birthdays |-> r.birthdays])
  IN
  /\ instance' = TRUE
  /\ IF s.err # NoErr
     THEN /\ users' = s.users
          /\ file' = file
          /\ Called("cmd_remove", a, s.err, <<>>, <<>>, NoNotifier)
     ELSE IF r.err # NoErr
     THEN /\ users' = us2
          /\ file' = file
          /\ Called("cmd_remove", a, [type |-> "SystemExit", msg |-> r.err.msg],
                    <<>>, <<>>, NoNotifier)
     ELSE /\ users' = us2
          /\ file' = Written(file, us2, io)
          /\ Called("cmd_remove", a, IoErr(io),
                    IF io = "ok" THEN <<Msg("Birthday removed and saved.")>> ELSE <<>>,
                    <<>>, NoNotifier)

\* _cmd_list: sorts a copy (user.birthdays is a tuple of the list).
CmdList(u) ==
  LET a == [NoArg EXCEPT !.user = u]
      s == Storage(instance, users, file)
      us1 == get_user(s.users, u)
      shown == sorted(Account(us1, u))
  IN
  /\ instance' = TRUE
  /\ file' = file
  /\ IF s.err # NoErr
     THEN /\ users' = s.users
          /\ Called("cmd_list", a, s.err, <<>>, <<>>, NoNotifier)
     ELSE /\ users' = us1
          /\ Called("cmd_list", a, NoErr,
                    IF Account(us1, u) = <<>> THEN <<Msg("No birthdays saved.")>>
                    ELSE [i \in 1..Len(shown) |-> EntryLine(shown[i])],
                    <<>>, NoNotifier)

\* _cmd_remind with date.today() = today
CmdRemind(u, channel, address, today) ==
  LET a == [NoArg EXCEPT !.user = u, !.channel = channel, !.address = address]
      s == Storage(instance, users, file)
      us1 == get_user(s.users, u)
      kw == _build_email_notifier_kwargs(channel, address)
      n == create(channel, kw.address)
      todays == todays_birthdays(Account(us1, u), today)
  IN
  /\ instance' = TRUE
  /\ file' = file
  /\ IF s.err # NoErr
     THEN /\ users' = s.users
          /\ Called("cmd_remind", a, s.err, <<>>, <<>>, NoNotifier)
     ELSE /\ users' = us1
          /\ IF kw.err # NoErr
             THEN Called("cmd_remind", a, kw.err, <<>>, <<>>, NoNotifier)
             ELSE IF n.err # NoErr
             THEN Called("cmd_remind", a, n.err, <<>>, <<>>, NoNotifier)
             ELSE IF todays = <<>>
             THEN Called("cmd_remind", [a EXCEPT !.today = today], NoErr,
                         <<Msg("No birthdays today.")>>, <<>>, n.notifier)
             ELSE Called("cmd_remind", [a EXCEPT !.today = today], NoErr,
                         [i \in 1..Len(todays) |-> send(n.notifier, u, todays[i], today)],
                         [i \in 1..Len(todays) |->
                            [notifier |-> n.notifier, user |-> u, birthday |-> todays[i]]],
                         n.notifier)

(***************************************************************************)
(* Spec: the store over two accounts, the file, reloads and the commands.  *)
(***************************************************************************)
\* Files the program may find: none, not JSON, a record lacking fields in
\* the second account, a name twice in one account.
PartlyBadFile ==
  JsonFile(<<[key |-> "alice", value |-> <<ToJson(Birthday("Bob", 6, 2))>>],
             [key |-> "bob", value |-> <<[name |-> "bob"]>>]>>)
DuplicateFile ==
  JsonFile(<<[key |-> "alice",
              value |-> <<ToJson(Birthday("Bob", 6, 2)), ToJson(Birthday("Bob", 6, 2))>>]>>)
InitFiles == {NoFile, GarbageFile, PartlyBadFile, DuplicateFile}

Init ==
  /\ file \in InitFiles
  /\ instance = FALSE
  /\ users = <<>>
  /\ op = "reset"
  /\ arg = NoArg
  /\ err = NoErr
  /\ out = <<>>
  /\ sent = <<>>
  /\ ret = NoNotifier

Next ==
  \/ ProcessStart
  \/ CallStorage
  \/ \E u \in Usernames : CallGetUser(u)
  \/ \E u \in Usernames, n \in StoreNames, dm \in StoreDates :
       /\ CountRecords(users) < MaxStoreRecords
       /\ CallAddBirthday(u, Birthday(n, dm[1], dm[2]))
  \/ \E u \in Usernames, n \in StoreNames : CallRemoveBirthday(u, n)
  \/ \E io \in IoOutcomes : CallSave(io)
  \/ \E u \in Usernames, n \in StoreNames, dm \in StoreDates, io \in IoOutcomes :
       /\ CountRecords(users) < MaxStoreRecords
       /\ CmdAdd(u, n, dm[1], dm[2], io)
  \/ \E u \in Usernames, n \in StoreNames, io \in IoOutcomes : CmdRemove(u, n, io)
  \/ \E u \in Usernames : CmdList(u)
  \/ \E u \in Usernames, c \in Channels, a \in StoreAddresses, t \in StoreTodays :
       CmdRemind(u, c, a, t)

Spec == Init /\ [][Next]_vars

(***************************************************************************)
(* SpecAccount: one account, as the test fixture's setUp leaves it (no     *)
(* file, Storage().get_user("alice")), with more names and dates.          *)
(***************************************************************************)
InitAccount ==
  /\ file = NoFile
  /\ instance = TRUE
  /\ users = <<User("alice")>>
  /\ op = "get_user"
  /\ arg = [NoArg EXCEPT !.user = "alice"]
  /\ err = NoErr
  /\ out = <<>>
  /\ sent = <<>>
  /\ ret = NoNotifier

NextAccount ==
  \/ \E n \in Names, dm \in Dates : CallAddBirthday("alice", Birthday(n, dm[1], dm[2]))
  \/ \E n \in Names : CallRemoveBirthday("alice", n)
  \/ CmdList("alice")
  \/ \E c \in Channels, a \in Addresses, t \in Todays : CmdRemind("alice", c, a, t)
  \/ \E k \in Kinds, a \in Addresses : CallCreate(k, a)

SpecAccount == InitAccount /\ [][NextAccount]_vars

(***************************************************************************)
(* Properties.                                                             *)
(***************************************************************************)
NamesOf(bs) == {bs[i].name : i \in 1..Len(bs)}
SameDate(b, t) == b.day = t.day /\ b.month = t.month
Position(bs, b) == CHOOSE i \in 1..Len(bs) : bs[i] = b

\* C1: in every reachable state no account holds two records with the same
\* name (compared case-sensitively, per account).
NoDuplicateNames ==
  \A i \in 1..Len(users) :
    \A j, k \in 1..Len(users[i].birthdays) :
      j # k => users[i].birthdays[j].name # users[i].birthdays[k].name
\* Two accounts hold "Bob", and one of them holds "bob" as well.
SameNameInTwoAccounts ==
  /\ Len(users) = 2
  /\ "Bob" \in NamesOf(users[1].birthdays)
  /\ "Bob" \in NamesOf(users[2].birthdays)
  /\ \E i \in 1..2 : "bob" \in NamesOf(users[i].birthdays)

\* C2: add_birthday with a name the account already holds raises the
\* duplicate-name ValueError and leaves the record sequence as it was;
\* with a new name it appends the record and keeps the earlier ones.
AddBirthdayContract ==
  [][op' = "add_birthday" =>
       LET b == Birthday(arg'.name, arg'.day, arg'.month)
           before == Account(users, arg'.user)
           after == Account(users', arg'.user)
       IN  IF b.name \in NamesOf(before)
           THEN err' = DupErr /\ after = before
           ELSE /\ err' = NoErr
                /\ Len(after) = Len(before) + 1
                /\ after[Len(after)] = b
                /\ \A i \in 1..Len(before) : after[i] = before[i]]_vars
\* A rejected add whose record differs in date from the one already held.
DuplicateAddRejected ==
  /\ op = "add_birthday"
  /\ err = DupErr
  /\ Len(Account(users, arg.user)) >= 2
  /\ \E i \in 1..Len(Account(users, arg.user)) :
       /\ Account(users, arg.user)[i].name = arg.name
       /\ Account(users, arg.user)[i].day # arg.day

\* C3: remove_birthday with an absent name raises the not-found ValueError
\* and leaves the sequence as it was; with a present name it removes that
\* one record and keeps the others in their order.
RemoveBirthdayContract ==
  [][op' = "remove_birthday" =>
       LET before == Account(users, arg'.user)
           after == Account(users', arg'.user)
       IN  IF arg'.name \notin NamesOf(before)
           THEN err' = NotFoundErr /\ after = before
           ELSE /\ err' = NoErr
                /\ Len(after) = Len(before) - 1
                /\ \E k \in 1..Len(before) :
                     /\ before[k].name = arg'.name
                     /\ \A i \in 1..Len(after) :
                          after[i] = IF i < k THEN before[i] ELSE before[i + 1]]_vars
\* A remove of an absent name from an account holding two records.
AbsentRemoveRejected ==
  /\ op = "remove_birthday"
  /\ err = NotFoundErr
  /\ Len(Account(users, arg.user)) = 2

\* C4: saving the in-memory mapping and loading the written file into a
\* fresh store gives the same usernames and, per username, the same record
\* sequence.
RoundTrip ==
  instance =>
    LET r == _load(_save(users), <<>>) IN
    /\ r.err = NoErr
    /\ Len(r.users) = Len(users)
    /\ {r.users[i].username : i \in 1..Len(r.users)} =
       {users[i].username : i \in 1..Len(users)}
    /\ \A i \in 1..Len(users) :
         Account(r.users, users[i].username) = users[i].birthdays
\* A fresh store just loaded a saved file with an empty account and an
\* account of two records.
ReloadedTwoAccounts ==
  /\ op = "Storage:load"
  /\ err = NoErr
  /\ Len(users) = 2
  /\ \E i, j \in 1..2 : users[i].birthdays = <<>> /\ Len(users[j].birthdays) = 2

\* The file holds exactly the in-memory mapping: one key per account, in
\* order, each with its full record list.
FileMirrorsUsers ==
  /\ file.exists
  /\ file.parses
  /\ Len(file.json) = Len(users)
  /\ \A i \in 1..Len(users) :
       /\ file.json[i].key = users[i].username
       /\ Len(file.json[i].value) = Len(users[i].birthdays)
       /\ \A j \in 1..Len(users[i].birthdays) :
            /\ DOMAIN file.json[i].value[j] = BirthdayFields
            /\ file.json[i].value[j].name = users[i].birthdays[j].name
            /\ file.json[i].value[j].day = users[i].birthdays[j].day
            /\ file.json[i].value[j].month = users[i].birthdays[j].month
\* C5: after every successful save, and so after every successful add or
\* remove command, the file holds the whole in-memory mapping and nothing
\* else; the account of a remove command stays in the file.
SaveWritesWholeMapping ==
  /\ (op \in {"save", "cmd_add", "cmd_remove"} /\ err = NoErr) => FileMirrorsUsers
  /\ (op = "cmd_remove" /\ err = NoErr) =>
       \E i \in 1..Len(file.json) : file.json[i].key = arg.user
\* The remove command took Bob out of alice, leaving {"alice": []}.
RemovedLastRecord ==
  /\ op = "cmd_remove"
  /\ err = NoErr
  /\ arg.user = "alice"
  /\ arg.name = "Bob"
  /\ file = JsonFile(<<[key |-> "alice", value |-> <<>>]>>)

\* C6: the file changes only in a step that reaches save; an add command
\* failing on a duplicate name and a remove command failing on a missing
\* name exit with the error and leave the file as it was.
FileChangesOnlyInSave ==
  [][/\ file' # file =>
          (op' \in {"save", "cmd_add", "cmd_remove"} /\ err' \in {NoErr, OSErr})
     /\ op' \in {"get_user", "add_birthday", "remove_birthday",
                 "cmd_list", "cmd_remind"} => file' = file
     /\ (op' = "cmd_add" /\ instance /\ HasUser(users, arg'.user)
           /\ arg'.name \in NamesOf(Account(users, arg'.user))) =>
          (err' = DupErr /\ file' = file /\ out' = <<>>)
     /\ (op' = "cmd_remove" /\ instance
           /\ (HasUser(users, arg'.user) =>
                 arg'.name \notin NamesOf(Account(users, arg'.user)))) =>
          (err' = ExitNotFound /\ file' = file /\ out' = <<>>)]_vars
\* An add command failed on a duplicate while memory and file differed.
FailedAddKeptFile ==
  /\ op = "cmd_add"
  /\ err = DupErr
  /\ file.exists
  /\ file.parses
  /\ ~FileMirrorsUsers

\* A file that exists and is not a well-formed store file.
Malformed(f) ==
  /\ f.exists
  /\ \/ ~f.parses
     \/ \E i \in 1..Len(f.json) :
          \/ \E j \in 1..Len(f.json[i].value) :
               DOMAIN f.json[i].value[j] # BirthdayFields
          \/ \E j, k \in 1..Len(f.json[i].value) :
               /\ j # k
               /\ DOMAIN f.json[i].value[j] = BirthdayFields
               /\ DOMAIN f.json[i].value[k] = BirthdayFields
               /\ f.json[i].value[j].name = f.json[i].value[k].name
\* The mapping us holds some but not all of the accounts of file f.
HoldsPartOf(us, f) ==
  /\ f.exists
  /\ f.parses
  /\ 0 < Len(us)
  /\ Len(us) < Len(f.json)
  /\ \A i \in 1..Len(us) : us[i].username = f.json[i].key
\* C7: initialization from a malformed file fails, and after such a failure
\* no later store access of the same process returns a store holding part
\* of the file's accounts and no later save overwrites the file with such a
\* part; without a file initialization succeeds with an empty mapping.
NoPartialRecovery ==
  [][/\ (op' = "Storage:load" /\ Malformed(file)) => err' # NoErr
     /\ (op' = "Storage:load" /\ ~file.exists) => (err' = NoErr /\ users' = <<>>)
     /\ (op = "Storage:load" /\ err # NoErr /\ op' # "reset") =>
          /\ err' = NoErr => ~HoldsPartOf(users', file)
          /\ HoldsPartOf(users, file) => file' = file]_vars

\* C8: a remind that runs to completion calls the notifier exactly once for
\* each record whose day and month are today's (whatever the year), in
\* insertion order, and for no other record; with no such record it calls
\* the notifier zero times and prints the one "No birthdays today." line.
RemindContract ==
  (op = "cmd_remind" /\ err = NoErr) =>
    LET bs == Account(users, arg.user)
        t == arg.today
    IN  /\ \A k \in 1..Len(sent) :
             /\ sent[k].user = arg.user
             /\ \E i \in 1..Len(bs) : bs[i] = sent[k].birthday /\ SameDate(bs[i], t)
        /\ \A i \in 1..Len(bs) :
             Cardinality({k \in 1..Len(sent) : sent[k].birthday = bs[i]}) =
               IF SameDate(bs[i], t) THEN 1 ELSE 0
        /\ \A k, l \in 1..Len(sent) :
             k < l => Position(bs, sent[k].birthday) < Position(bs, sent[l].birthday)
        /\ IF \E i \in 1..Len(bs) : SameDate(bs[i], t)
           THEN /\ Len(out) = Len(sent)
                /\ \A k \in 1..Len(out) : out[k].name = sent[k].birthday.name
           ELSE sent = <<>> /\ out = <<Msg("No birthdays today.")>>
\* Three records, the middle one on another date, reminded in 2026.
RemindedAroundNonMatch ==
  /\ op = "cmd_remind"
  /\ err = NoErr
  /\ arg.today.year = 2026
  /\ Len(Account(users, arg.user)) = 3
  /\ ~SameDate(Account(users, arg.user)[2], arg.today)
  /\ Len(sent) = 2

\* C9: list prints every record exactly once, ascending by (month, day),
\* records of equal (month, day) in insertion order; for an empty account
\* it prints the one "No birthdays saved." line; the stored order stays.
ListContract ==
  [][(op' = "cmd_list" /\ err' = NoErr) =>
       LET u == arg'.user
           bs == IF HasUser(users, u) THEN Account(users, u) ELSE <<>>
           n == Len(bs)
       IN  /\ Account(users', u) = bs
           /\ IF bs = <<>> THEN out' = <<Msg("No birthdays saved.")>>
              ELSE /\ Len(out') = n
                   /\ \E p \in [1..n -> 1..n] :
                        /\ \A k, l \in 1..n : k # l => p[k] # p[l]
                        /\ \A k \in 1..n : out'[k] = EntryLine(bs[p[k]])
                        /\ \A k, l \in 1..n : k < l =>
                             \/ bs[p[k]].month < bs[p[l]].month
                             \/ /\ bs[p[k]].month = bs[p[l]].month
                                /\ bs[p[k]].day < bs[p[l]].day
                             \/ /\ bs[p[k]].month = bs[p[l]].month
                                /\ bs[p[k]].day = bs[p[l]].day
                                /\ p[k] < p[l]]_vars
\* Stored [x, y, z] with y and z on one date before x's: printed y, z, x.
ListedTieBeforeFirst ==
  /\ op = "cmd_list"
  /\ err = NoErr
  /\ Len(out) = 3
  /\ LET bs == Account(users, arg.user) IN
     /\ out[1].name = bs[2].name
     /\ out[2].name = bs[3].name
     /\ out[3].name = bs[1].name
     /\ bs[2].day = bs[3].day
     /\ bs[2].month = bs[3].month
     /\ bs[1].day < bs[2].day

FactoryReturns(k, a) ==
  /\ k = "console" => (err' = NoErr /\ ret' = ConsoleNotifier)
  /\ (k = "email" /\ a # None /\ a # Some("")) =>
       (err' = NoErr /\ ret' = [kind |-> "email", address |-> a])
  /\ UNCHANGED <<instance, users, file>>
  /\ out' = <<>>
  /\ sent' = <<>>
\* C10 as stated: the two failures of the factory are distinguishable error
\* kinds (MissingConfigurationError, UnknownNotifierKindError).
FactoryErrorKindsDiffer ==
  [][op' = "create" =>
       LET k == arg'.channel
           a == arg'.address
       IN  /\ FactoryReturns(k, a)
           /\ (k = "email" /\ (a = None \/ a = Some(""))) =>
                (err' # NoErr /\ \A o \in Kinds \ Channels :
                                   err'.type # create(o, a).err.type)
           /\ k \notin Channels =>
                (err' # NoErr /\ err'.type # create("email", None).err.type)]_vars
\* C10 amended: both failures are ValueError and differ in the message.
FactoryContract ==
  [][op' = "create" =>
       LET k == arg'.channel
           a == arg'.address
       IN  /\ FactoryReturns(k, a)
           /\ (k = "email" /\ (a = None \/ a = Some(""))) =>
                /\ err'.type = "ValueError"
                /\ err'.msg = "Missing email address for email notifier"
                /\ ret' = NoNotifier
           /\ k \notin Channels =>
                /\ err'.type = "ValueError"
                /\ err'.msg = "Unknown notifier kind: " \o k
                /\ err'.msg # "Missing email address for email notifier"
                /\ ret' = NoNotifier]_vars
\* The factory refused "email" with an empty address.
EmailWithoutAddressRefused ==
  /\ op = "create"
  /\ arg.channel = "email"
  /\ arg.address = Some("")
  /\ err = MissingAddressErr

====
